---- MODULE Spec2Model ----
(***************************************************************************)
(* Generic CRUD orchestration layer of fastapi-app: the repository         *)
(* (crud/base.py), the service (services/base.py), the route builder       *)
(* (api/base.py) and the error responder (core/application/exceptions.py), *)
(* over the User entity (models/user.py).                                  *)
(*                                                                         *)
(* One action is one HTTP request handled to completion by its own         *)
(* record-store session.  A record is abstracted to its key, its unique    *)
(* column (username), one plain column (first_name, standing for           *)
(* second_name and email as well) and the soft-delete marker.              *)
(***************************************************************************)
EXTENDS Integers, Sequences, FiniteSets, TLC

\* ---------------------------------------------------------------- bounds
MaxTime == 2
MaxBatch == 2
MaxPage == 2

Ids == {"u1", "u2"}
Usernames == {"alice", "bob"}
FirstNames == {"Ann", "Bo"}
Times == 1..MaxTime

\* ------------------------------------------------------------ data shapes
\* Python None / an Optional that holds a value
None == <<>>
Some(x) == <<x>>

\* models/user.py: a row of table "user" (deleted_at: None or Some(time))
Row(id, username, first_name, deleted_at) ==
    [id |-> id, username |-> username, first_name |-> first_name,
     deleted_at |-> deleted_at]

\* schemas/user.py UserCreate; shape_ok = the body item passes the schema
\* (all required fields present, EmailStr well formed)
UserCreate ==
    [id : Ids, username : Usernames, first_name : {"Ann"}, shape_ok : BOOLEAN]

\* CRUDBase.create takes any create schema: one that carries no id
\* (written id = "") leaves the column to its default
CreateNoId ==
    [id : {""}, username : Usernames, first_name : {"Ann"}, shape_ok : {TRUE}]

\* schemas/user.py UserUpdate: every field optional; "unset" = not sent,
\* None = sent as null
Unset == <<"unset">>
UserUpdate ==
    [username : {Unset, None} \cup {Some(u) : u \in Usernames},
     first_name : {Unset} \cup {Some(n) : n \in FirstNames}]

\* sqlalchemy_easy_softdelete: every select gets "deleted_at IS NULL"
\* unless the statement carries include_deleted=True
SoftDeleteFilter(row, include_deleted) ==
    include_deleted \/ row.deleted_at = None

\* ------------------------------------------------------------- exceptions
\* sqlalchemy.exc.IntegrityError as parse_integrity_error sees it:
\* the constraint name the driver reports ("" when it reports none) and
\* whether the text carries "DETAIL: Key (...)=(...) already exists"
IntegrityError(constraint, key_exists) ==
    [cls |-> "IntegrityError", constraint |-> constraint,
     key_exists |-> key_exists]

HTTP_400_BAD_REQUEST == 400
HTTP_404_NOT_FOUND == 404
HTTP_409_CONFLICT == 409
HTTP_200_OK == 200
HTTP_201_CREATED == 201
HTTP_401_UNAUTHORIZED == 401
HTTP_403_FORBIDDEN == 403
HTTP_405_METHOD_NOT_ALLOWED == 405
HTTP_501_NOT_IMPLEMENTED == 501
HTTP_502_BAD_GATEWAY == 502

AppError(cls, status_code, message) ==
    [cls |-> cls, status_code |-> status_code, message |-> message]

BaseAppError(message) == AppError("BaseAppError", HTTP_400_BAD_REQUEST, message)

EntityNotFoundError ==
    AppError("EntityNotFoundError", HTTP_404_NOT_FOUND, "Entity not found.")

Prefix3(s) ==
    CASE s = "uq_user_username" -> "uq_"
      [] s = "pk_user" -> "pk_"
      [] s = "fk_user_ref" -> "fk_"
      [] s = "ck_user_chk" -> "ck_"
      [] OTHER -> "other"

\* (mutant) the text of the error is searched before the constraint name
parse_integrity_error_text_first(exc) ==
    IF exc.key_exists
    THEN <<HTTP_409_CONFLICT, "Duplicate value for field(s)">>
    ELSE CASE exc.constraint # "" /\ Prefix3(exc.constraint) = "uq_" ->
                <<HTTP_409_CONFLICT, "Duplicate value for unique field(s).">>
           [] exc.constraint # "" /\ Prefix3(exc.constraint) = "pk_" ->
                <<HTTP_409_CONFLICT, "Duplicate primary key.">>
           [] exc.constraint # "" /\ Prefix3(exc.constraint) = "fk_" ->
                <<HTTP_400_BAD_REQUEST, "Invalid reference: related record not found.">>
           [] exc.constraint # "" /\ Prefix3(exc.constraint) = "ck_" ->
                <<HTTP_400_BAD_REQUEST, "Invalid value: violates check constraint.">>
           [] OTHER -> <<HTTP_400_BAD_REQUEST, "Database integrity error.">>

parse_integrity_error(exc) ==
    CASE exc.constraint # "" /\ Prefix3(exc.constraint) = "uq_" ->
            <<HTTP_409_CONFLICT, "Duplicate value for unique field(s).">>
      [] exc.constraint # "" /\ Prefix3(exc.constraint) = "pk_" ->
            <<HTTP_409_CONFLICT, "Duplicate primary key.">>
      [] exc.constraint # "" /\ Prefix3(exc.constraint) = "fk_" ->
            <<HTTP_400_BAD_REQUEST, "Invalid reference: related record not found.">>
      [] exc.constraint # "" /\ Prefix3(exc.constraint) = "ck_" ->
            <<HTTP_400_BAD_REQUEST, "Invalid value: violates check constraint.">>
      [] OTHER ->
            IF exc.key_exists
            THEN <<HTTP_409_CONFLICT, "Duplicate value for field(s)">>
            ELSE <<HTTP_400_BAD_REQUEST, "Database integrity error.">>

DatabaseIntegrityError(exc) ==
    AppError("DatabaseIntegrityError",
             parse_integrity_error(exc)[1], parse_integrity_error(exc)[2])

\* the class attributes STATUS_CODE and DESCRIPTION
STATUS_CODE(cls) ==
    CASE cls = "BaseAppError" -> HTTP_400_BAD_REQUEST
      [] cls = "SoftValidationError" -> HTTP_200_OK
      [] cls = "EntityNotFoundError" -> HTTP_404_NOT_FOUND
      [] cls = "PermissionDeniedError" -> HTTP_403_FORBIDDEN
      [] cls = "UnauthorizedError" -> HTTP_401_UNAUTHORIZED
      [] cls = "MethodNotAllowedError" -> HTTP_405_METHOD_NOT_ALLOWED
      [] cls = "ConflictError" -> HTTP_409_CONFLICT
      [] cls = "NotImplementedFunctionError" -> HTTP_501_NOT_IMPLEMENTED
      [] cls = "ExternalAPIError" -> HTTP_502_BAD_GATEWAY
      [] cls = "DatabaseIntegrityError" -> HTTP_400_BAD_REQUEST

DESCRIPTION(cls) ==
    CASE cls = "BaseAppError" -> "An error occurred."
      [] cls = "SoftValidationError" ->
            "Soft validation error that doesn't interrupt flow."
      [] cls = "EntityNotFoundError" -> "Entity not found."
      [] cls = "PermissionDeniedError" ->
            "User does not have the required permissions."
      [] cls = "UnauthorizedError" ->
            "There's some kind of authorization problem."
      [] cls = "MethodNotAllowedError" -> "Method not allowed."
      [] cls = "ConflictError" -> "Conflict: resource already exists."
      [] cls = "NotImplementedFunctionError" -> "Method not implemented."
      [] cls = "ExternalAPIError" -> "External api call failed."
      [] cls = "DatabaseIntegrityError" -> "Database integrity error."

\* Python's "x or default" on an Optional: None, "" and 0 are falsy
OrMessage(x, default) == IF x \in {None, Some("")} THEN default ELSE x[1]
OrStatus(x, default) == IF x \in {None, Some(0)} THEN default ELSE x[1]

\* (mutant) __init__ falls back on the STATUS_CODE of the base class
BaseAppError_init_base_status(cls, message, status_code) ==
    AppError(cls, OrStatus(status_code, HTTP_400_BAD_REQUEST),
             OrMessage(message, DESCRIPTION(cls)))

\* BaseAppError.__init__ as run for an instance of class cls
BaseAppError_init(cls, message, status_code) ==
    AppError(cls, OrStatus(status_code, STATUS_CODE(cls)),
             OrMessage(message, DESCRIPTION(cls)))

\* the arguments an application error is built from; a field a class
\* takes no such argument for is left at None
ErrorMessages == {None, Some(""), Some("boom"), Some("bang")}
IntegrityErrors ==
    {IntegrityError(c, k) :
        c \in {"", "uq_user_username", "pk_user", "fk_user_ref", "ck_user_chk",
               "ix_user"},
        k \in BOOLEAN}
ErrorArgs ==
    [cls : {"BaseAppError"}, message : ErrorMessages,
        status_code : {None, Some(0), Some(418)}, entity_id : {None},
        exc : {None}]
    \cup [cls : {"SoftValidationError", "PermissionDeniedError",
                 "UnauthorizedError", "ConflictError", "ExternalAPIError"},
          message : ErrorMessages, status_code : {None}, entity_id : {None},
          exc : {None}]
    \cup [cls : {"EntityNotFoundError"}, message : ErrorMessages,
          status_code : {None}, entity_id : {Some(i) : i \in Ids}, exc : {None}]
    \cup [cls : {"MethodNotAllowedError", "NotImplementedFunctionError"},
          message : {None}, status_code : {None}, entity_id : {None},
          exc : {None}]
    \cup [cls : {"DatabaseIntegrityError"}, message : {None},
          status_code : {None}, entity_id : {None},
          exc : {Some(x) : x \in IntegrityErrors}]

\* the __init__ of each class
NewAppError(args) ==
    CASE args.cls = "BaseAppError" ->
            BaseAppError_init(args.cls, args.message, args.status_code)
      [] args.cls \in {"SoftValidationError", "PermissionDeniedError",
                       "UnauthorizedError", "ConflictError", "ExternalAPIError"} ->
            BaseAppError_init(args.cls,
                              Some(OrMessage(args.message, DESCRIPTION(args.cls))),
                              Some(STATUS_CODE(args.cls)))
      [] args.cls = "EntityNotFoundError" ->
            BaseAppError_init(args.cls,
                Some(OrMessage(args.message,
                        IF args.entity_id = Some("u1")
                        THEN "Entity User with id u1 was not found."
                        ELSE "Entity User with id u2 was not found.")),
                Some(STATUS_CODE(args.cls)))
      [] args.cls = "MethodNotAllowedError" ->
            BaseAppError_init(args.cls,
                Some("Method PATCH is not allowed for entity User"), None)
      [] args.cls = "NotImplementedFunctionError" ->
            BaseAppError_init(args.cls, Some(DESCRIPTION(args.cls)), None)
      [] args.cls = "DatabaseIntegrityError" ->
            BaseAppError_init(args.cls,
                Some(parse_integrity_error(args.exc[1])[2]),
                Some(parse_integrity_error(args.exc[1])[1]))


\* ------------------------------------------------------ outcome of a call
\* a call either returns a value or raises; store is the committed table
Return(store, value) ==
    [store |-> store, raised |-> FALSE, value |-> Some(value), exc |-> None]

Raise(store, exc) ==
    [store |-> store, raised |-> TRUE, value |-> None, exc |-> Some(exc)]

\* what a run leaves open: whether the driver's error object exposes
\* constraint_name, which unique index is checked first when an INSERT
\* violates two of them, and the value uuid4().hex yields when the id
\* default of models/base_class.py is called
Driver ==
    [named : BOOLEAN, first : {"pk_user", "uq_user_username"}, uuid4 : Ids]

\* ------------------------------------------------------- the record store
Stored(store) == {store[i] : i \in DOMAIN store}

\* (mutant) the unique index on username covers the rows with
\* deleted_at IS NULL only
InsertViolations_active_only(store, row) ==
    (IF row.id \in DOMAIN store THEN {"pk_user"} ELSE {})
    \cup (IF \E r \in Stored(store) :
                r.username = row.username /\ r.deleted_at = None
          THEN {"uq_user_username"} ELSE {})

\* (mutant) id is no primary key: an INSERT never collides on it
InsertViolations_no_pk(store, row) ==
    IF \E r \in Stored(store) : r.id # row.id /\ r.username = row.username
    THEN {"uq_user_username"} ELSE {}

\* constraints of table "user" an INSERT of row would violate
\* (models/base_class.py primary key, models/user.py unique username)
InsertViolations(store, row) ==
    (IF row.id \in DOMAIN store THEN {"pk_user"} ELSE {})
    \cup (IF \E r \in Stored(store) : r.username = row.username
          THEN {"uq_user_username"} ELSE {})

Reported(viol, drv) ==
    IF drv.first \in viol THEN drv.first ELSE CHOOSE c \in viol : TRUE

Insert(store, row) ==
    [i \in DOMAIN store \cup {row.id} |-> IF i = row.id THEN row ELSE store[i]]

Delete(store, id) ==
    [i \in DOMAIN store \ {id} |-> store[i]]

\* session.refresh(obj): a select by primary key, which the soft-delete
\* hook filters like any other select
refresh(store, obj) ==
    IF obj.id \in DOMAIN store /\ SoftDeleteFilter(store[obj.id], FALSE)
    THEN Return(store, store[obj.id])
    ELSE Raise(store, [cls |-> "InvalidRequestError"])

\* ------------------------------------------------- crud/base.py CRUDBase
\* (mutant) the statement loses its include_deleted option handling: rows
\* are returned whatever their marker
CRUDBase_get_unfiltered(store, id_, include_removed) ==
    IF id_ \in DOMAIN store THEN Some(store[id_]) ELSE None


CRUDBase_get(store, id_, include_removed) ==
    IF id_ \in DOMAIN store /\ SoftDeleteFilter(store[id_], include_removed)
    THEN Some(store[id_])
    ELSE None

\* (mutant) include_removed is not passed on to the statement
CRUDBase_get_all_active_only(store, include_removed) ==
    {r \in Stored(store) : SoftDeleteFilter(r, FALSE)}


CRUDBase_get_all(store, include_removed) ==
    {r \in Stored(store) : SoftDeleteFilter(r, include_removed)}

\* (mutant) session.merge in place of session.add: a row with the same
\* primary key is overwritten
\* ORDER BY id: ids compare as strings
IdRank(id) == IF id = "u1" THEN 1 ELSE 2

RECURSIVE OrderByIdDesc(_)
OrderByIdDesc(rows) ==
    IF rows = {} THEN <<>>
    ELSE LET top == CHOOSE r \in rows :
                        \A q \in rows : IdRank(q.id) <= IdRank(r.id)
         IN  <<top>> \o OrderByIdDesc(rows \ {top})

\* (mutant) the statement carries include_deleted=True
CRUDBase_get_multi_with_removed(store, skip, limit) ==
    LET rows == OrderByIdDesc(Stored(store))
    IN  SubSeq(rows, skip + 1,
               IF skip + limit < Len(rows) THEN skip + limit ELSE Len(rows))

CRUDBase_get_multi(store, skip, limit) ==
    LET rows == OrderByIdDesc({r \in Stored(store) : SoftDeleteFilter(r, FALSE)})
    IN  SubSeq(rows, skip + 1,
               IF skip + limit < Len(rows) THEN skip + limit ELSE Len(rows))

CRUDBase_create_merge(store, obj_in, drv) ==
    LET db_obj == Row(IF obj_in.id = "" THEN drv.uuid4 ELSE obj_in.id,
                      obj_in.username, obj_in.first_name, None)
    IN  IF \E r \in Stored(store) : r.id # db_obj.id /\ r.username = db_obj.username
        THEN Raise(store, IntegrityError(
                 IF drv.named THEN "uq_user_username" ELSE "", TRUE))
        ELSE refresh(Insert(store, db_obj), db_obj)

CRUDBase_create(store, obj_in, drv) ==
    LET db_obj == Row(IF obj_in.id = "" THEN drv.uuid4 ELSE obj_in.id,
                      obj_in.username, obj_in.first_name, None)
        viol == InsertViolations(store, db_obj)
    IN  IF viol = {}
        THEN refresh(Insert(store, db_obj), db_obj)
        ELSE Raise(store, IntegrityError(
                 IF drv.named THEN Reported(viol, drv) ELSE "", TRUE))

\* (mutant) the loop over the dumped fields sets nothing
Patched_nothing(db_obj, obj_in) == db_obj

\* setattr for every field of model_dump(exclude_unset=True); a field sent
\* as null puts NULL (written "") into a NOT NULL column
Patched(db_obj, obj_in) ==
    [db_obj EXCEPT
        !.username = IF obj_in.username = Unset THEN @
                     ELSE IF obj_in.username = None THEN "" ELSE obj_in.username[1],
        !.first_name = IF obj_in.first_name = Unset THEN @
                       ELSE obj_in.first_name[1]]

\* the UPDATE a flush emits: only the columns whose value changed on the
\* session's object, on the row with the object's key
Flush(store, old, new, drv) ==
    IF old = new THEN Return(store, new)
    ELSE IF new.id \notin DOMAIN store
    THEN Raise(store, [cls |-> "StaleDataError"])
    ELSE LET cur == store[new.id]
             row == [cur EXCEPT
                        !.username = IF new.username # old.username
                                     THEN new.username ELSE @,
                        !.first_name = IF new.first_name # old.first_name
                                       THEN new.first_name ELSE @,
                        !.deleted_at = IF new.deleted_at # old.deleted_at
                                       THEN new.deleted_at ELSE @]
         IN  IF row.username = ""
             THEN Raise(store, IntegrityError("", FALSE))
             ELSE IF \E r \in Stored(store) :
                        r.id # row.id /\ r.username = row.username
             THEN Raise(store, IntegrityError(
                      IF drv.named THEN "uq_user_username" ELSE "", TRUE))
             ELSE Return([store EXCEPT ![new.id] = row], new)

CRUDBase_update(store, db_obj, obj_in, drv) ==
    LET committed == Flush(store, db_obj, Patched(db_obj, obj_in), drv)
    IN  IF committed.raised THEN committed
        ELSE refresh(committed.store, committed.value[1])

\* (mutant) the marker is cleared on the object but never committed
CRUDBase_restore_uncommitted(store, obj, drv) ==
    Return(store, [obj EXCEPT !.deleted_at = None])


CRUDBase_restore(store, obj, drv) ==
    Flush(store, obj, [obj EXCEPT !.deleted_at = None], drv)

\* (mutant) the lookup leaves include_deleted out
CRUDBase_remove_filtered(store, id_) ==
    IF id_ \in DOMAIN store /\ SoftDeleteFilter(store[id_], FALSE)
    THEN Return(Delete(store, id_), store[id_])
    ELSE Raise(store, [cls |-> "NoResultFound"])


CRUDBase_remove(store, id_) ==
    IF id_ \in DOMAIN store
    THEN Return(Delete(store, id_), store[id_])
    ELSE Raise(store, [cls |-> "NoResultFound"])

CRUDBase_soft_remove(store, obj, now, drv) ==
    LET committed == Flush(store, obj, [obj EXCEPT !.deleted_at = Some(now)], drv)
    IN  IF committed.raised THEN committed
        ELSE IF obj.id \in DOMAIN committed.store
        THEN Return(committed.store, committed.value[1])
        ELSE Raise(committed.store, [cls |-> "NoResultFound"])

\* ----------------------------------------- services/base.py CrudServiceBase
\* (mutant) include_removed is not handed to the repository
CrudServiceBase_get_always_filtered(store, id_, include_removed) ==
    LET obj == CRUDBase_get(store, id_, FALSE)
    IN  IF obj = None
        THEN Raise(store, EntityNotFoundError)
        ELSE Return(store, obj[1])

CrudServiceBase_get(store, id_, include_removed) ==
    LET obj == CRUDBase_get(store, id_, include_removed)
    IN  IF obj = None
        THEN Raise(store, EntityNotFoundError)
        ELSE Return(store, obj[1])

CrudServiceBase_get_all(store, include_removed) ==
    CRUDBase_get_all(store, include_removed)

CrudServiceBase_create(store, obj_in, drv) ==
    CRUDBase_create(store, obj_in, drv)

\* (mutant) the target is resolved with removed records included
CrudServiceBase_update_any(store, id_, obj_in, drv) ==
    LET obj_to_update == CrudServiceBase_get(store, id_, TRUE)
    IN  IF obj_to_update.raised THEN obj_to_update
        ELSE CRUDBase_update(store, obj_to_update.value[1], obj_in, drv)


CrudServiceBase_update(store, id_, obj_in, drv) ==
    LET obj_to_update == CrudServiceBase_get(store, id_, FALSE)
    IN  IF obj_to_update.raised THEN obj_to_update
        ELSE CRUDBase_update(store, obj_to_update.value[1], obj_in, drv)

\* (mutant) no check that the record is soft-deleted
CrudServiceBase_restore_unchecked(store, id_, drv) ==
    LET obj == CrudServiceBase_get(store, id_, TRUE)
    IN  IF obj.raised THEN obj
        ELSE CRUDBase_restore(store, obj.value[1], drv)


CrudServiceBase_restore(store, id_, drv) ==
    LET obj == CrudServiceBase_get(store, id_, TRUE)
    IN  IF obj.raised THEN obj
        ELSE IF obj.value[1].deleted_at = None
        THEN Raise(store, BaseAppError("A User was not soft deleted."))
        ELSE CRUDBase_restore(store, obj.value[1], drv)

\* (mutant) hard_remove is ignored: every delete is a soft delete
CrudServiceBase_delete_always_soft(store, id_, hard_remove, now, drv) ==
    LET obj == CrudServiceBase_get(store, id_, TRUE)
    IN  IF obj.raised THEN obj
        ELSE IF obj.value[1].deleted_at # None
        THEN Raise(store, BaseAppError("A User is already soft deleted."))
        ELSE CRUDBase_soft_remove(store, obj.value[1], now, drv)

\* (mutant) no check that the record is already soft-deleted
CrudServiceBase_delete_idempotent(store, id_, hard_remove, now, drv) ==
    LET obj == CrudServiceBase_get(store, id_, TRUE)
    IN  IF obj.raised THEN obj
        ELSE IF hard_remove THEN CRUDBase_remove(store, id_)
        ELSE CRUDBase_soft_remove(store, obj.value[1], now, drv)


\* (mutant) a soft delete marks the record before it tests deleted_at
CrudServiceBase_delete_marks_first(store, id_, hard_remove, now, drv) ==
    LET obj == CrudServiceBase_get(store, id_, TRUE)
    IN  IF obj.raised THEN obj
        ELSE IF hard_remove THEN CRUDBase_remove(store, id_)
        ELSE IF obj.value[1].deleted_at # None
        THEN Raise(CRUDBase_soft_remove(store, obj.value[1], now, drv).store,
                   BaseAppError("A User is already soft deleted."))
        ELSE CRUDBase_soft_remove(store, obj.value[1], now, drv)

\* (mutant) a hard delete goes to the repository without the lookup
CrudServiceBase_delete_no_lookup(store, id_, hard_remove, now, drv) ==
    IF hard_remove THEN CRUDBase_remove(store, id_)
    ELSE LET obj == CrudServiceBase_get(store, id_, TRUE)
         IN  IF obj.raised THEN obj
             ELSE IF obj.value[1].deleted_at # None
             THEN Raise(store, BaseAppError("A User is already soft deleted."))
             ELSE CRUDBase_soft_remove(store, obj.value[1], now, drv)

CrudServiceBase_delete(store, id_, hard_remove, now, drv) ==
    LET obj == CrudServiceBase_get(store, id_, TRUE)
    IN  IF obj.raised THEN obj
        ELSE IF hard_remove THEN CRUDBase_remove(store, id_)
        ELSE IF obj.value[1].deleted_at # None
        THEN Raise(store, BaseAppError("A User is already soft deleted."))
        ELSE CRUDBase_soft_remove(store, obj.value[1], now, drv)

\* ------------------------- core/application/exceptions.py error responder
AppErrorClasses ==
    {"BaseAppError", "SoftValidationError", "EntityNotFoundError",
     "PermissionDeniedError", "UnauthorizedError", "MethodNotAllowedError",
     "ConflictError", "NotImplementedFunctionError", "ExternalAPIError",
     "DatabaseIntegrityError"}

to_response(exc) ==
    [status_code |-> exc.status_code, error |-> exc.cls,
     message |-> exc.message, body |-> {}]

\* (mutant) no handler is registered for IntegrityError
handle_exception_app_errors_only(exc) ==
    IF exc.cls \in AppErrorClasses
    THEN to_response(exc)
    ELSE [status_code |-> 500, error |-> exc.cls,
          message |-> "Internal Server Error", body |-> {}]

\* register_errors_handlers: an IntegrityError is re-raised as a
\* DatabaseIntegrityError, every BaseAppError becomes its response; any
\* other exception is the server's plain 500
handle_exception(exc) ==
    IF exc.cls = "IntegrityError"
    THEN to_response(DatabaseIntegrityError(exc))
    ELSE IF exc.cls \in AppErrorClasses
    THEN to_response(exc)
    ELSE [status_code |-> 500, error |-> exc.cls,
          message |-> "Internal Server Error", body |-> {}]

\* the response of a route whose handler ended in outcome out
Response(out, status_code) ==
    IF out.raised
    THEN handle_exception(out.exc[1])
    ELSE [status_code |-> status_code, error |-> "", message |-> "",
          body |-> {out.value[1]}]

\* --------------------------------------------- api/base.py BaseCRUDRouter
\* "if not obj: raise BaseAppError" never fires: a mapped object is truthy
create_single_object(store, obj_create, drv) ==
    CrudServiceBase_create(store, obj_create, drv)

\* the loop of create_multiple from item k on; calls counts the items
\* handed to create_single_object
RECURSIVE create_multiple_from(_, _, _, _, _)
create_multiple_from(store, objs_create, k, objs_result, drv) ==
    IF k > Len(objs_create)
    THEN [store |-> store, raised |-> FALSE, objs_result |-> objs_result,
          exc |-> None, calls |-> Len(objs_create)]
    ELSE LET out == create_single_object(store, objs_create[k], drv)
         IN  IF out.raised
             THEN [store |-> out.store, raised |-> TRUE,
                   objs_result |-> objs_result, exc |-> out.exc, calls |-> k]
             ELSE create_multiple_from(out.store, objs_create, k + 1,
                                       Append(objs_result, out.value[1]), drv)

\* (mutant) the batch runs in one transaction that a failure rolls back
create_multiple_atomic(store, objs_create, drv) ==
    LET out == create_multiple_from(store, objs_create, 1, <<>>, drv)
    IN  IF out.raised THEN [out EXCEPT !.store = store] ELSE out


create_multiple(store, objs_create, drv) ==
    create_multiple_from(store, objs_create, 1, <<>>, drv)

\* the body of a POST is parsed against its schema before the handler
\* runs; a body that does not fit is answered 422 and the handler is
\* never entered
RequestValidationError ==
    [status_code |-> 422, error |-> "RequestValidationError",
     message |-> "Unprocessable Entity", body |-> {}]

Range(seq) == {seq[i] : i \in 1..Len(seq)}

\* ------------------------------------------------------------------ state
VARIABLES
    db,        \* table "user": id -> row, for the ids that have a row
    req,       \* the last request handled
    resp,      \* its response
    calls,     \* how many items that request handed to service.create
    pre,       \* the table as it was before that request
    created,   \* the ids of the stored records, in the order of their creation
    multi,     \* the last get_multi call and the page it returned
    builder,   \* a BaseCRUDRouter: its toggles, its router, the loop position
    thrown,    \* an application error and the response built from it
    sess,      \* the requests in flight, each with its session
    auth       \* the last bearer token, the user it resolved to, the handler

\* what the route handlers leave alone
aux == <<created, multi, builder, thrown, sess, auth>>

\* what the direct calls of the repository leave alone
auxMulti == <<req, resp, calls, pre, builder, thrown, sess, auth>>

\* what the registration of routes leaves alone
auxRoutes ==
    <<db, req, resp, calls, pre, created, multi, thrown, sess, auth>>

\* what the raising of an application error leaves alone
auxErrors ==
    <<db, req, resp, calls, pre, created, multi, builder, sess, auth>>

\* what requests running side by side leave alone
auxConcurrent ==
    <<req, resp, calls, pre, created, multi, builder, thrown, auth>>

vars ==
    <<db, req, resp, calls, pre, created, multi, builder, thrown, sess, auth>>

NoPatch == [username |-> Unset, first_name |-> Unset]

Request(op, id, flag, items, patch) ==
    [op |-> op, id |-> id, flag |-> flag, items |-> items, patch |-> patch]

EmptyTable == [i \in {} |-> Row("", "", "", None)]

\* ------------------------------------------- api/base.py BaseCRUDRouter
Toggles ==
    {"enable_create", "enable_create_multiple", "enable_read",
     "enable_read_all", "enable_update", "enable_restore", "enable_delete"}

\* what each register_* method puts on the router
Endpoint(register_fn) ==
    CASE register_fn = "register_get_all" -> [method |-> "GET", path |-> "/"]
      [] register_fn = "register_get_by_id" -> [method |-> "GET", path |-> "/{id}"]
      [] register_fn = "register_create" -> [method |-> "POST", path |-> "/"]
      [] register_fn = "register_create_multiple" ->
            [method |-> "POST", path |-> "/batch"]
      [] register_fn = "register_update" -> [method |-> "PUT", path |-> "/{id}"]
      [] register_fn = "register_restore" ->
            [method |-> "PUT", path |-> "/{id}/restore"]
      [] register_fn = "register_delete" -> [method |-> "DELETE", path |-> "/{id}"]

ROUTES ==
    << <<"enable_read_all", "register_get_all">>,
       <<"enable_read", "register_get_by_id">>,
       <<"enable_create", "register_create">>,
       <<"enable_create_multiple", "register_create_multiple">>,
       <<"enable_update", "register_update">>,
       <<"enable_restore", "register_restore">>,
       <<"enable_delete", "register_delete">> >>

\* __init__: the toggles are stored, the router has no route yet; i is the
\* entry of ROUTES the loop of register_routes looks at next
BaseCRUDRouter(flags) == [flags |-> flags, routes |-> <<>>, i |-> 1]

\* (mutant) the loop calls every register function
register_routes_all(b) ==
    [b EXCEPT !.routes = Append(@, Endpoint(ROUTES[b.i][2])), !.i = @ + 1]

\* one turn of the loop of register_routes
register_routes_turn(b) ==
    LET flag == ROUTES[b.i][1]
        register_fn == ROUTES[b.i][2]
    IN  IF b.flags[flag]
        THEN [b EXCEPT !.routes = Append(@, Endpoint(register_fn)), !.i = @ + 1]
        ELSE [b EXCEPT !.i = @ + 1]

RECURSIVE register_routes(_)
register_routes(b) ==
    IF b.i > Len(ROUTES) THEN b ELSE register_routes(register_routes_turn(b))

\* flushes that touch deleted_at alone meet no constraint: any driver does
AnyDriver == [named |-> TRUE, first |-> "pk_user", uuid4 |-> "u1"]

NamedOrNot == {drv \in Driver : drv.first = "pk_user" /\ drv.uuid4 = "u1"}

\* a body that carries its id never reaches the id default
NoDefault == {drv \in Driver : drv.uuid4 = "u1"}

\* requests that run side by side, and one before it has begun
Slots == {"r1", "r2"}

NoResponse == [status_code |-> 0, error |-> "", message |-> "", body |-> {}]

NoRequest ==
    [pc |-> "idle", op |-> "none", id |-> "", flag |-> FALSE, patch |-> NoPatch,
     obj |-> None, session |-> "none", opened |-> 0, hit |-> "",
     result |-> NoResponse]

\* no token has been presented yet
NoAuth == [token |-> None, user |-> None, ran |-> FALSE]

Quiet ==
    /\ req = Request("none", "", FALSE, <<>>, NoPatch)
    /\ resp = [status_code |-> 0, error |-> "", message |-> "", body |-> {}]
    /\ calls = 0
    /\ pre = EmptyTable
    /\ created = <<>>
    /\ multi = [called |-> FALSE, skip |-> 0, limit |-> 0, result |-> <<>>]
    /\ thrown = [args |-> None, exc |-> None, response |-> None]
    /\ sess = [r \in Slots |-> NoRequest]
    /\ auth = NoAuth

Fresh ==
    /\ db = EmptyTable
    /\ Quiet

\* the routes are those of a builder with every toggle at its default
Init ==
    /\ Fresh
    /\ builder = register_routes(BaseCRUDRouter([t \in Toggles |-> TRUE]))

\* ---------------------------------------------- registration of routes
InitRoutes ==
    /\ Fresh
    /\ builder \in {BaseCRUDRouter(flags) : flags \in [Toggles -> BOOLEAN]}

register_routes_step ==
    /\ builder.i <= Len(ROUTES)
    /\ builder' = register_routes_turn(builder)
    /\ UNCHANGED auxRoutes

NextRoutes == register_routes_step

SpecRoutes == InitRoutes /\ [][NextRoutes]_vars

\* ---------------------------------------------------------------- actions
\* GET /{id}
get_by_id(id_, include_removed) ==
    LET out == CrudServiceBase_get(db, id_, include_removed)
    IN  /\ req' = Request("get_by_id", id_, include_removed, <<>>, NoPatch)
        /\ resp' = Response(out, HTTP_200_OK)
        /\ pre' = db
        /\ UNCHANGED aux
        /\ calls' = 0
        /\ UNCHANGED db

\* GET /
get_all(include_removed) ==
    /\ req' = Request("get_all", "", include_removed, <<>>, NoPatch)
    /\ resp' = [status_code |-> HTTP_200_OK, error |-> "", message |-> "",
                body |-> CrudServiceBase_get_all(db, include_removed)]
    /\ pre' = db
    /\ UNCHANGED aux
    /\ calls' = 0
    /\ UNCHANGED db

\* POST /
create(obj_create, drv) ==
    LET out == create_single_object(db, obj_create, drv)
    IN  /\ req' = Request("create",
                          IF obj_create.id = "" THEN drv.uuid4 ELSE obj_create.id,
                          FALSE, <<obj_create>>, NoPatch)
        /\ pre' = db
        /\ UNCHANGED aux
        /\ IF ~obj_create.shape_ok
           THEN /\ resp' = RequestValidationError
                /\ calls' = 0
                /\ UNCHANGED db
           ELSE /\ resp' = Response(out, HTTP_201_CREATED)
                /\ calls' = 1
                /\ db' = out.store

\* POST /batch
create_multiple_route(objs_create, drv) ==
    LET out == create_multiple(db, objs_create, drv)
    IN  /\ req' = Request("create_multiple", "", FALSE, objs_create, NoPatch)
        /\ pre' = db
        /\ UNCHANGED aux
        /\ IF \E o \in Range(objs_create) : ~o.shape_ok
           THEN /\ resp' = RequestValidationError
                /\ calls' = 0
                /\ UNCHANGED db
           ELSE /\ resp' = IF out.raised
                           THEN handle_exception(out.exc[1])
                           ELSE [status_code |-> HTTP_201_CREATED, error |-> "",
                                 message |-> "", body |-> Range(out.objs_result)]
                /\ calls' = out.calls
                /\ db' = out.store

\* PUT /{id}
update(id_, obj_update, drv) ==
    LET out == CrudServiceBase_update(db, id_, obj_update, drv)
    IN  /\ req' = Request("update", id_, FALSE, <<>>, obj_update)
        /\ resp' = Response(out, HTTP_200_OK)
        /\ pre' = db
        /\ UNCHANGED aux
        /\ calls' = 0
        /\ db' = out.store

\* PUT /{id}/restore
restore(id_) ==
    LET out == CrudServiceBase_restore(db, id_, AnyDriver)
    IN  /\ req' = Request("restore", id_, FALSE, <<>>, NoPatch)
        /\ resp' = Response(out, HTTP_200_OK)
        /\ pre' = db
        /\ UNCHANGED aux
        /\ calls' = 0
        /\ db' = out.store

\* DELETE /{id}; now is datetime.now(UTC) as soft_remove reads it
delete(id_, hard_remove, now) ==
    LET out == CrudServiceBase_delete(db, id_, hard_remove, now, AnyDriver)
    IN  /\ req' = Request("delete", id_, hard_remove, <<>>, NoPatch)
        /\ resp' = Response(out, HTTP_200_OK)
        /\ pre' = db
        /\ UNCHANGED aux
        /\ calls' = 0
        /\ db' = out.store

\* batch bodies: each id comes with its own username
BatchItems ==
    {o \in UserCreate : o.username = (IF o.id = "u1" THEN "alice" ELSE "bob")}

Batches == UNION {[1..n -> BatchItems] : n \in 1..MaxBatch}

Next ==
    \/ \E id_ \in Ids, include_removed \in BOOLEAN : get_by_id(id_, include_removed)
    \/ \E include_removed \in BOOLEAN : get_all(include_removed)
    \/ \E obj_create \in UserCreate, drv \in NoDefault : create(obj_create, drv)
    \/ \E obj_create \in CreateNoId, drv \in Driver : create(obj_create, drv)
    \/ \E objs_create \in Batches, drv \in NamedOrNot :
            create_multiple_route(objs_create, drv)
    \/ \E id_ \in Ids, obj_update \in UserUpdate, drv \in NamedOrNot :
            update(id_, obj_update, drv)
    \/ \E id_ \in Ids : restore(id_)
    \/ \E id_ \in Ids, hard_remove \in BOOLEAN, now \in Times :
            delete(id_, hard_remove, now)

Spec == Init /\ [][Next]_vars

\* ------------------------------------------- requests side by side
\* core/db/session.py session_getter: "async with session_factory() as
\* session: yield session". The dependency is resolved once per request;
\* leaving the with block closes the session, whether the handler returned
\* or raised
session_getter_enter(request) ==
    [request EXCEPT !.session = "open", !.opened = @ + 1]

\* (mutant) no with block: the session is closed after a normal return only
session_getter_exit_on_return(request, raised) ==
    IF raised THEN request ELSE [request EXCEPT !.session = "closed"]

session_getter_exit(request, raised) ==
    [request EXCEPT !.session = "closed"]

\* (mutant) update resolves its target with removed records included
service_lookup_update_any(store, op, id_, hard_remove) ==
    LET obj == CrudServiceBase_get(store, id_, TRUE)
    IN  IF obj.raised THEN obj
        ELSE IF op = "restore" /\ obj.value[1].deleted_at = None
        THEN Raise(store, BaseAppError("A User was not soft deleted."))
        ELSE IF op = "delete" /\ ~hard_remove /\ obj.value[1].deleted_at # None
        THEN Raise(store, BaseAppError("A User is already soft deleted."))
        ELSE obj

\* (mutant) delete does not look at deleted_at
service_lookup_delete_unchecked(store, op, id_, hard_remove) ==
    LET obj == CrudServiceBase_get(store, id_, op # "update")
    IN  IF obj.raised THEN obj
        ELSE IF op = "restore" /\ obj.value[1].deleted_at = None
        THEN Raise(store, BaseAppError("A User was not soft deleted."))
        ELSE obj

\* what a service method does before it calls the repository: update,
\* restore and delete resolve the target and check its deleted_at
service_lookup(store, op, id_, hard_remove) ==
    LET obj == CrudServiceBase_get(store, id_, op # "update")
    IN  IF obj.raised THEN obj
        ELSE IF op = "restore" /\ obj.value[1].deleted_at = None
        THEN Raise(store, BaseAppError("A User was not soft deleted."))
        ELSE IF op = "delete" /\ ~hard_remove /\ obj.value[1].deleted_at # None
        THEN Raise(store, BaseAppError("A User is already soft deleted."))
        ELSE obj

\* (mutant) remove takes the first row of its select, if any, and goes on
remove_select_first(store, request) ==
    Return(store, request.obj[1])

\* remove selects the row again, removed ones included: scalar_one raises
\* when there is none; otherwise the session hands back the object it holds
remove_select(store, request) ==
    IF request.id \in DOMAIN store
    THEN Return(store, request.obj[1])
    ELSE Raise(store, [cls |-> "NoResultFound"])

\* the repository call up to and including its commit, on the object the
\* session holds since the lookup; a DELETE that matches no row makes the
\* session warn, not raise
repository_commit(store, request, now, drv) ==
    CASE request.op = "update" ->
            Flush(store, request.obj[1], Patched(request.obj[1], request.patch), drv)
      [] request.op = "restore" -> CRUDBase_restore(store, request.obj[1], drv)
      [] request.op = "delete" /\ request.flag ->
            Return(Delete(store, request.id), request.obj[1])
      [] request.op = "delete" /\ ~request.flag ->
            Flush(store, request.obj[1],
                  [request.obj[1] EXCEPT !.deleted_at = Some(now)], drv)

\* what the repository call does after its commit: update refreshes the
\* object; soft_remove selects the row again, and the session hands back
\* the object it holds, whose loaded attributes the select does not touch
repository_reread(store, request) ==
    IF request.op = "update" THEN refresh(store, request.obj[1])
    ELSE IF request.id \in DOMAIN store
    THEN Return(store, request.obj[1])
    ELSE Raise(store, [cls |-> "NoResultFound"])

\* the request ends: the response goes out and the session is released
Finished(request, out) ==
    [session_getter_exit(request, out.raised) EXCEPT
        !.pc = "done", !.result = Response(out, HTTP_200_OK)]

\* a request arrives on a free slot: its session is acquired and the
\* service method resolves its target
begin(r, op, id_, hard_remove, obj_update) ==
    LET request == session_getter_enter(
                       [NoRequest EXCEPT !.op = op, !.id = id_, !.flag = hard_remove,
                                         !.patch = obj_update])
        out == service_lookup(db, op, id_, hard_remove)
    IN  /\ sess[r].pc \in {"idle", "done"}
        /\ sess' = [sess EXCEPT ![r] =
                        IF out.raised THEN Finished(request, out)
                        ELSE [request EXCEPT
                                !.pc = IF op = "delete" /\ hard_remove
                                       THEN "select" ELSE "commit",
                                !.obj = out.value]]
        /\ UNCHANGED <<db, auxConcurrent>>

\* remove looks the record up once more before it deletes
select(r) ==
    LET request == sess[r]
        out == remove_select(db, request)
    IN  /\ request.pc = "select"
        /\ sess' = [sess EXCEPT ![r] =
                        IF out.raised THEN Finished(request, out)
                        ELSE [request EXCEPT !.pc = "commit"]]
        /\ UNCHANGED <<db, auxConcurrent>>

\* the repository commits; restore and remove return right after
commit(r, now, drv) ==
    LET request == sess[r]
        out == repository_commit(db, request, now, drv)
        \* the state of the row the statement of this commit changed
        wrote == IF out.raised \/ request.id \notin DOMAIN db
                       \/ (out.value = request.obj /\ ~request.flag)
                 THEN ""
                 ELSE IF db[request.id].deleted_at # None
                 THEN "SoftDeleted" ELSE "Active"
    IN  /\ request.pc = "commit"
        /\ db' = out.store
        /\ sess' = [sess EXCEPT ![r] =
                        IF out.raised \/ request.op = "restore"
                                      \/ (request.op = "delete" /\ request.flag)
                        THEN Finished([request EXCEPT !.hit = wrote], out)
                        ELSE [request EXCEPT !.pc = "reread", !.obj = out.value,
                                             !.hit = wrote]]
        /\ UNCHANGED auxConcurrent

\* update and soft_remove read the record again and return it
reread(r) ==
    LET request == sess[r]
        out == repository_reread(db, request)
    IN  /\ request.pc = "reread"
        /\ sess' = [sess EXCEPT ![r] = Finished(request, out)]
        /\ UNCHANGED <<db, auxConcurrent>>

\* the requests start on a table that holds one Active record
InitConcurrent ==
    /\ db = [i \in {"u1"} |-> Row("u1", "alice", "Ann", None)]
    /\ Quiet
    /\ builder = register_routes(BaseCRUDRouter([t \in Toggles |-> TRUE]))

ConcurrentPatches == {[username |-> Unset, first_name |-> Some(n)] : n \in FirstNames}

NextConcurrent ==
    \/ \E r \in Slots, id_ \in Ids, obj_update \in ConcurrentPatches :
            begin(r, "update", id_, FALSE, obj_update)
    \/ \E r \in Slots, id_ \in Ids : begin(r, "restore", id_, FALSE, NoPatch)
    \/ \E r \in Slots, id_ \in Ids, hard_remove \in BOOLEAN :
            begin(r, "delete", id_, hard_remove, NoPatch)
    \/ \E r \in Slots : select(r)
    \/ \E r \in Slots, now \in Times : commit(r, now, AnyDriver)
    \/ \E r \in Slots : reread(r)

SpecConcurrent == InitConcurrent /\ [][NextConcurrent]_vars

\* ------------------------------------------------- application errors
\* an application error is raised somewhere below a route
raise_error(args) ==
    /\ thrown' = [args |-> Some(args), exc |-> Some(NewAppError(args)),
                  response |-> None]
    /\ UNCHANGED auxErrors

\* the handler registered for BaseAppError answers with exc.to_response()
app_error_handler ==
    /\ thrown.exc # None
    /\ thrown.response = None
    /\ thrown' = [thrown EXCEPT !.response = Some(to_response(thrown.exc[1]))]
    /\ UNCHANGED auxErrors

NextErrors ==
    \/ \E args \in ErrorArgs : raise_error(args)
    \/ app_error_handler

SpecErrors == Init /\ [][NextErrors]_vars

\* ------------------------------------------- the repository, paginated
\* CRUDBase.get_multi has no route: these steps call the repository and
\* the service directly, and keep track of the order of creation
repo_create(obj_in, drv) ==
    LET out == CRUDBase_create(db, obj_in, drv)
    IN  /\ db' = out.store
        /\ created' = IF out.raised THEN created
                      ELSE Append(created, out.value[1].id)
        /\ UNCHANGED <<auxMulti, multi>>

service_delete(id_, hard_remove, now) ==
    LET out == CrudServiceBase_delete(db, id_, hard_remove, now, AnyDriver)
    IN  /\ db' = out.store
        /\ created' = SelectSeq(created, LAMBDA i : i \in DOMAIN out.store)
        /\ UNCHANGED <<auxMulti, multi>>

get_multi(skip, limit) ==
    /\ multi' = [called |-> TRUE, skip |-> skip, limit |-> limit,
                 result |-> CRUDBase_get_multi(db, skip, limit)]
    /\ UNCHANGED <<auxMulti, db, created>>

NextMulti ==
    \/ \E obj_in \in {o \in UserCreate : o.shape_ok}, drv \in NoDefault :
            repo_create(obj_in, drv)
    \/ \E id_ \in Ids, hard_remove \in BOOLEAN, now \in Times :
            service_delete(id_, hard_remove, now)
    \/ \E skip \in 0..MaxPage, limit \in 0..MaxPage : get_multi(skip, limit)

SpecMulti == Init /\ [][NextMulti]_vars

\* --------------------------------------- reads beside the other calls
\* the service behind the routes, and get_multi called on the repository
NextReads ==
    \/ \E id_ \in Ids, include_removed \in BOOLEAN : get_by_id(id_, include_removed)
    \/ \E include_removed \in BOOLEAN : get_all(include_removed)
    \/ \E obj_create \in BatchItems, drv \in NamedOrNot : create(obj_create, drv)
    \/ \E id_ \in Ids, obj_update \in ConcurrentPatches :
            update(id_, obj_update, AnyDriver)
    \/ \E id_ \in Ids : restore(id_)
    \/ \E id_ \in Ids, hard_remove \in BOOLEAN, now \in Times :
            delete(id_, hard_remove, now)
    \/ \E skip \in 0..MaxPage, limit \in 0..MaxPage : get_multi(skip, limit)

SpecReads == Init /\ [][NextReads]_vars

\* ------------------------------------------- authentication and users
\* schemas/openid.py UserInfo, as far as create_user reads it
UserInfo ==
    [sub : Ids, preferred_username : Usernames, given_name : FirstNames]

NoInfo == [sub |-> "", preferred_username |-> "", given_name |-> ""]

\* a bearer token is known by what the provider's userinfo endpoint does
\* with it: it answers with the identity, rejects with 401, with 403 or
\* with another status, cannot be reached, or answers something that is
\* no UserInfo
Rejections == {"401", "403", "status", "network", "other"}

Tokens ==
    [answer : {"userinfo"}, info : UserInfo]
    \cup [answer : Rejections, info : {NoInfo}]

PermissionDeniedError(message) ==
    NewAppError([cls |-> "PermissionDeniedError", message |-> Some(message),
                 status_code |-> None, entity_id |-> None, exc |-> None])

UnauthorizedError(message) ==
    NewAppError([cls |-> "UnauthorizedError", message |-> Some(message),
                 status_code |-> None, entity_id |-> None, exc |-> None])

\* OpenIDAuthService.get_user_info
get_user_info(store, token) ==
    CASE token.answer = "userinfo" -> Return(store, token.info)
      [] token.answer = "401" ->
            Raise(store, UnauthorizedError("Invalid or expired token"))
      [] token.answer = "403" ->
            Raise(store, PermissionDeniedError("Token lacks required permissions"))
      [] token.answer = "status" ->
            Raise(store, UnauthorizedError("OIDC provider rejected the request"))
      [] token.answer = "network" ->
            Raise(store, UnauthorizedError("OIDC provider unreachable"))
      [] token.answer = "other" ->
            Raise(store, UnauthorizedError("Failed to retrieve user info"))

\* (mutant) the current user is looked up among the removed records too
get_current_user_with_removed(store, token) ==
    LET user_info == get_user_info(store, token)
    IN  IF user_info.raised
        THEN user_info
        ELSE CrudServiceBase_get(store, user_info.value[1].sub, TRUE)

\* api/dependencies.py get_current_user
get_current_user(store, token) ==
    LET user_info == get_user_info(store, token)
    IN  IF user_info.raised
        THEN user_info
        ELSE CrudServiceBase_get(store, user_info.value[1].sub, FALSE)

\* (mutant) create_user creates without looking the identity up
UserService_create_user_no_lookup(store, user_info, drv) ==
    CRUDBase_create(store,
        [id |-> user_info.sub, username |-> user_info.preferred_username,
         first_name |-> user_info.given_name, shape_ok |-> TRUE], drv)

\* UserService.create_user
UserService_create_user(store, user_info, drv) ==
    LET user == CrudServiceBase_get(store, user_info.sub, FALSE)
        user_create ==
            [id |-> user_info.sub, username |-> user_info.preferred_username,
             first_name |-> user_info.given_name, shape_ok |-> TRUE]
    IN  IF user.raised /\ user.exc[1].cls = "EntityNotFoundError"
        THEN CRUDBase_create(store, user_create, drv)
        ELSE user

\* api/v1/users.py get_all, given the object get_current_user returned:
\* the attribute section_head is looked up on that object
users_get_all(store, user) ==
    IF "section_head" \notin DOMAIN user
    THEN Raise(store, [cls |-> "AttributeError"])
    ELSE IF ~user.section_head
    THEN Raise(store, PermissionDeniedError("Permission Denied."))
    ELSE Return(store, CrudServiceBase_get_all(store, FALSE))

\* the identity a token stands for ("" when the provider gives none)
Sub(token) == IF token.answer = "userinfo" THEN token.info.sub ELSE ""

\* POST /auth/login
login(token, drv) ==
    LET user_info == get_user_info(db, token)
        out == IF user_info.raised
               THEN user_info
               ELSE UserService_create_user(db, user_info.value[1], drv)
    IN  /\ req' = Request("login", Sub(token), FALSE, <<>>, NoPatch)
        /\ resp' = Response(out, HTTP_200_OK)
        /\ pre' = db
        /\ calls' = 0
        /\ db' = out.store
        /\ auth' = [token |-> Some(token), user |-> out.value, ran |-> TRUE]
        /\ UNCHANGED <<created, multi, builder, thrown, sess>>

\* GET /users/me: the handler returns the user its dependency resolved
get_me(token) ==
    LET user == get_current_user(db, token)
    IN  /\ req' = Request("get_me", Sub(token), FALSE, <<>>, NoPatch)
        /\ resp' = Response(user, HTTP_200_OK)
        /\ pre' = db
        /\ calls' = 0
        /\ auth' = [token |-> Some(token), user |-> user.value,
                    ran |-> ~user.raised]
        /\ UNCHANGED <<db, created, multi, builder, thrown, sess>>

\* GET /users/
get_users(token) ==
    LET user == get_current_user(db, token)
        out == IF user.raised THEN user ELSE users_get_all(db, user.value[1])
    IN  /\ req' = Request("get_users", Sub(token), FALSE, <<>>, NoPatch)
        /\ resp' = IF out.raised
                   THEN handle_exception(out.exc[1])
                   ELSE [status_code |-> HTTP_200_OK, error |-> "",
                         message |-> "", body |-> out.value[1]]
        /\ pre' = db
        /\ calls' = 0
        /\ auth' = [token |-> Some(token), user |-> user.value,
                    ran |-> ~user.raised]
        /\ UNCHANGED <<db, created, multi, builder, thrown, sess>>

\* the users' routes beside the delete and restore of user records
NextAuth ==
    \/ \E token \in Tokens, drv \in NamedOrNot : login(token, drv)
    \/ \E token \in Tokens : get_me(token)
    \/ \E token \in Tokens : get_users(token)
    \/ \E id_ \in Ids, hard_remove \in BOOLEAN, now \in Times :
            delete(id_, hard_remove, now)
    \/ \E id_ \in Ids : restore(id_)

SpecAuth == Init /\ [][NextAuth]_vars

\* ----------------------------------------------------------- vocabulary
IsActive(store, id) == id \in DOMAIN store /\ store[id].deleted_at = None

IsSoftDeleted(store, id) == id \in DOMAIN store /\ store[id].deleted_at # None

LifeState(store, id) ==
    IF id \notin DOMAIN store THEN "Gone"
    ELSE IF store[id].deleted_at = None THEN "Active" ELSE "SoftDeleted"

Succeeded == resp.error = ""

SoftDeleted_ok == req.op = "delete" /\ ~req.flag /\ Succeeded

HardDeleted_ok == req.op = "delete" /\ req.flag /\ Succeeded

Restored_ok == req.op = "restore" /\ Succeeded

FailsWith(r, cls, status_code) ==
    r.error = cls /\ r.status_code = status_code /\ r.body = {}

NotFound(out) == out.raised /\ out.exc = Some(EntityNotFoundError)

\* ------------------------------------------------------------------- C1
\* C1: after a successful delete(id, hard_remove=false) of an Active
\* record e, get(id, include_removed=false) fails with EntityNotFound and
\* get(id, include_removed=true) returns e with deleted_at set and every
\* other field as it was.
C1_SoftDeleteHidesRecord ==
    SoftDeleted_ok =>
        /\ IsActive(pre, req.id)
        /\ NotFound(CrudServiceBase_get(db, req.id, FALSE))
        /\ LET found == CrudServiceBase_get(db, req.id, TRUE)
           IN  /\ ~found.raised
               /\ found.value[1].deleted_at # None
               /\ [found.value[1] EXCEPT !.deleted_at = None] = pre[req.id]

C1_Witness ==
    /\ SoftDeleted_ok
    /\ pre[req.id].first_name = "Bo"
    /\ db[req.id].deleted_at = Some(MaxTime)

\* ------------------------------------------------------------------- C2
\* C2: a successful soft delete of an Active record e followed by a
\* successful restore of the same id is a round trip: get(id,
\* include_removed=false) then returns e, deleted_at null and every other
\* field as before the soft delete.
C2_SoftDeleteRestoreRoundTrip ==
    [][(/\ SoftDeleted_ok
        /\ req'.op = "restore" /\ req'.id = req.id /\ resp'.error = "")
       => LET found == CrudServiceBase_get(db', req.id, FALSE)
          IN  /\ ~found.raised
              /\ found.value[1].deleted_at = None
              /\ found.value[1] = pre[req.id]]_vars

C2_Witness ==
    /\ Restored_ok
    /\ IsSoftDeleted(pre, req.id)
    /\ IsActive(db, req.id)
    /\ db[req.id].first_name = "Bo"

\* ------------------------------------------------------------------- C3
\* C3: the life of the record under one id changes only Active ->
\* SoftDeleted (by a soft delete), SoftDeleted -> Active (by restore),
\* Active -> Gone and SoftDeleted -> Gone (by a hard delete); while the id
\* has no record, update, restore and delete on it fail and store nothing.
\* (A record comes to exist under an id by create alone.)
C3_Lifecycle ==
    [][\A id \in Ids :
        LET a == LifeState(db, id)
            b == LifeState(db', id)
            by(op, flag) == /\ req'.op = op /\ req'.id = id
                            /\ req'.flag = flag /\ resp'.error = ""
        IN  /\ a # b =>
                \/ a = "Active" /\ b = "SoftDeleted" /\ by("delete", FALSE)
                \/ a = "SoftDeleted" /\ b = "Active" /\ by("restore", FALSE)
                \/ a = "Active" /\ b = "Gone" /\ by("delete", TRUE)
                \/ a = "SoftDeleted" /\ b = "Gone" /\ by("delete", TRUE)
                \/ a = "Gone" /\ b = "Active"
                     /\ req'.op \in {"create", "create_multiple"}
            /\ (a = "Gone" /\ req'.id = id
                    /\ req'.op \in {"update", "restore", "delete"})
                => resp'.error # "" /\ db' = db]_vars

C3_Witness ==
    /\ HardDeleted_ok
    /\ IsSoftDeleted(pre, req.id)
    /\ LifeState(db, req.id) = "Gone"

\* ------------------------------------------------------------------- C4
\* C4: delete(id, hard_remove=false) on a soft-deleted record fails with
\* InvalidState (BaseAppError, 400) and leaves the table, deleted_at
\* included, as it was.
C4_SoftDeleteTwiceRejected ==
    (req.op = "delete" /\ ~req.flag /\ IsSoftDeleted(pre, req.id)) =>
        /\ FailsWith(resp, "BaseAppError", 400)
        /\ db = pre

C4_Witness ==
    /\ req.op = "delete" /\ ~req.flag
    /\ IsSoftDeleted(pre, req.id)
    /\ resp.error # ""

\* ------------------------------------------------------------------- C5
\* C5: restore(id) on an Active record fails with InvalidState
\* (BaseAppError, 400) and leaves the table as it was.
C5_RestoreActiveRejected ==
    (req.op = "restore" /\ IsActive(pre, req.id)) =>
        /\ FailsWith(resp, "BaseAppError", 400)
        /\ db = pre

C5_Witness ==
    /\ req.op = "restore"
    /\ IsActive(pre, req.id)
    /\ resp.error # ""

\* ------------------------------------------------------------------- C6
\* C6: update(id, input) on a soft-deleted or missing record fails with
\* EntityNotFound and changes nothing: a soft-deleted record stays
\* soft-deleted with its fields and deleted_at as they were.
C6_UpdateNeedsActive ==
    (req.op = "update" /\ ~IsActive(pre, req.id)) =>
        /\ FailsWith(resp, "EntityNotFoundError", 404)
        /\ db = pre

C6_Witness ==
    /\ req.op = "update"
    /\ IsSoftDeleted(pre, req.id)
    /\ req.patch.first_name = Some("Bo")
    /\ resp.error # ""

\* ------------------------------------------------------------------- C7
\* C7: delete(id, hard_remove=true) succeeds on an Active and on a
\* SoftDeleted record alike, and afterwards get(id, include_removed)
\* fails with EntityNotFound for both values of include_removed.
C7_HardDeleteRemoves ==
    (req.op = "delete" /\ req.flag /\ req.id \in DOMAIN pre) =>
        /\ Succeeded
        /\ resp.status_code = 200
        /\ \A include_removed \in BOOLEAN :
              NotFound(CrudServiceBase_get(db, req.id, include_removed))

C7_Witness ==
    /\ HardDeleted_ok
    /\ IsActive(pre, req.id)

\* ------------------------------------------------------------------- C8
\* the table after the first n items of a batch were created one by one
RECURSIVE Committed(_, _, _)
Committed(store, items, n) ==
    IF n = 0 THEN store
    ELSE Insert(Committed(store, items, n - 1),
                Row(items[n].id, items[n].username, items[n].first_name, None))

\* the item of the last batch that failed: the first one that does not fit
\* the schema when the body was refused, else the one whose create raised
FailedItem ==
    IF resp.error = "RequestValidationError"
    THEN CHOOSE k \in 1..Len(req.items) :
            /\ ~req.items[k].shape_ok
            /\ \A j \in 1..(k - 1) : req.items[j].shape_ok
    ELSE calls

\* C8 as claimed: whenever item k of a batch fails, for whatever reason,
\* items 1..k-1 are committed and stay in the table.
C8_AnyFailureKeepsPrefix ==
    (req.op = "create_multiple" /\ ~Succeeded) =>
        db = Committed(pre, req.items, FailedItem - 1)

\* C8 (amended): batch create is sequential and non-atomic for failures
\* inside the handler: when the create of item k raises, items 1..k-1 are
\* committed and stay, item k is not stored and items k+1.. are never
\* handed to create; a body with an item that does not fit the create
\* schema is refused as a whole before any item is created.
C8_BatchPartialCommit ==
    (req.op = "create_multiple" /\ ~Succeeded) =>
        IF resp.error = "RequestValidationError"
        THEN calls = 0 /\ db = pre
        ELSE /\ calls \in 1..Len(req.items)
             /\ \A j \in 1..Len(req.items) : req.items[j].shape_ok
             /\ db = Committed(pre, req.items, calls - 1)
             /\ InsertViolations(db, Row(req.items[calls].id,
                    req.items[calls].username, req.items[calls].first_name,
                    None)) # {}

C8_Witness ==
    /\ req.op = "create_multiple" /\ ~Succeeded
    /\ resp.error = "DatabaseIntegrityError"
    /\ Len(req.items) = 2 /\ calls = 2
    /\ pre = EmptyTable
    /\ DOMAIN db = {req.items[1].id}

\* ------------------------------------------------------------------- C9
DuplicateMessages ==
    {"Duplicate value for unique field(s).", "Duplicate primary key.",
     "Duplicate value for field(s)"}

\* C9: creating a record whose username is that of a stored record ends
\* in a 409 response built from the re-classified IntegrityError, with a
\* duplicate-constraint message, and stores no second record.
C9_DuplicateCreateConflicts ==
    (/\ req.op = "create" /\ req.items[1].shape_ok
     /\ \E r \in Stored(pre) : r.username = req.items[1].username) =>
        /\ FailsWith(resp, "DatabaseIntegrityError", 409)
        /\ resp.message \in DuplicateMessages
        /\ db = pre

C9_Witness ==
    /\ req.op = "create" /\ req.items[1].shape_ok
    /\ \E r \in Stored(pre) :
          r.username = req.items[1].username /\ r.id # req.items[1].id
    /\ resp.status_code = 409

\* ------------------------------------------------------------------ C10
\* C10: in every reachable state a list request with include_removed=false
\* returns exactly the Active records and one with include_removed=true
\* exactly the Active and SoftDeleted ones; an id without a record (hard
\* deleted) is in neither list.
C10_GetAllByLifeState ==
    req.op = "get_all" =>
        LET shown == IF req.flag THEN {"Active", "SoftDeleted"} ELSE {"Active"}
        IN  /\ Succeeded
            /\ resp.body = {db[i] : i \in {j \in Ids : LifeState(db, j) \in shown}}
            /\ \A i \in Ids : LifeState(db, i) = "Gone" =>
                    \A r \in resp.body : r.id # i

C10_Witness ==
    /\ req.op = "get_all" /\ req.flag
    /\ \E r \in resp.body : r.deleted_at # None
    /\ \E r \in resp.body : r.deleted_at = None

\* ------------------------------------------------------------------ C11
\* C11: every stored record is Active (deleted_at null) or SoftDeleted
\* (deleted_at a time), never both; after a hard delete the id has no record
\* at all; and an id never has two records, soft-deleted ones counted: the
\* table holds one row per id, and a create under an id that has a record
\* (soft-deleted or not) is refused with 409 and stores nothing.
C11_OneRecordPerId ==
    /\ DOMAIN db \subseteq Ids
    /\ \A i \in DOMAIN db :
            /\ db[i].id = i
            /\ db[i].deleted_at \in {None} \cup {Some(t) : t \in Times}
            /\ IsActive(db, i) # IsSoftDeleted(db, i)
            /\ LifeState(db, i) \in {"Active", "SoftDeleted"}
    /\ \A i \in Ids : Cardinality({r \in Stored(db) : r.id = i}) <= 1
    /\ HardDeleted_ok =>
            /\ req.id \notin DOMAIN db
            /\ \A r \in Stored(db) : r.id # req.id
    /\ (req.op = "create" /\ req.items[1].shape_ok /\ req.id \in DOMAIN pre) =>
            /\ resp.status_code = HTTP_409_CONFLICT
            /\ db = pre

C11_Witness ==
    /\ req.op = "create"
    /\ req.items[1].shape_ok
    /\ IsSoftDeleted(pre, req.id)
    /\ req.items[1].username # pre[req.id].username
    /\ resp.status_code = HTTP_409_CONFLICT
    /\ Cardinality(DOMAIN db) = 2

\* ------------------------------------------------------------------ C12
\* C12: a record create produces is Active and is stored under the id the
\* client gave or, when it gave none, under a generated id; either way no
\* record had that id before, and the record returned is the stored row,
\* carrying the fields of the input.
C12_CreateStartsActive ==
    (req.op = "create" /\ Succeeded) =>
        LET obj_in == req.items[1]
        IN  /\ \E r \in resp.body : resp.body = {r}
            /\ \A r \in resp.body :
                    /\ r.id \in DOMAIN db /\ db[r.id] = r
                    /\ r.deleted_at = None
                    /\ obj_in.id # "" => r.id = obj_in.id
                    /\ obj_in.id = "" => r.id \in Ids
                    /\ r.id \notin DOMAIN pre
                    /\ r.username = obj_in.username
                    /\ r.first_name = obj_in.first_name
                    /\ \A i \in DOMAIN pre : i \in DOMAIN db /\ db[i] = pre[i]
                    /\ DOMAIN db = DOMAIN pre \cup {r.id}

\* a create without id succeeds beside an existing record
C12_Witness ==
    /\ req.op = "create"
    /\ Succeeded
    /\ req.items[1].id = ""
    /\ Cardinality(DOMAIN pre) = 1
    /\ Cardinality(DOMAIN db) = 2

\* ------------------------------------------------------------------ C13
\* C13: after a successful update the stored record has the input's value
\* in every field the input carries and its previous value in every field
\* the input leaves out; id and deleted_at are as before, and so is every
\* other record.
C13_UpdateIsPartialPatch ==
    (req.op = "update" /\ Succeeded) =>
        /\ req.id \in DOMAIN pre
        /\ DOMAIN db = DOMAIN pre
        /\ \A i \in DOMAIN db \ {req.id} : db[i] = pre[i]
        /\ LET old == pre[req.id]
               new == db[req.id]
               obj_in == req.patch
           IN  /\ obj_in.username # None
               /\ new.username = IF obj_in.username = Unset THEN old.username
                                  ELSE obj_in.username[1]
               /\ new.first_name = IF obj_in.first_name = Unset THEN old.first_name
                                    ELSE obj_in.first_name[1]
               /\ new.id = old.id
               /\ new.deleted_at = old.deleted_at
               /\ resp.body = {new}

C13_Witness ==
    /\ req.op = "update"
    /\ Succeeded
    /\ req.patch.first_name = Unset
    /\ req.patch.username \notin {Unset, None}
    /\ pre[req.id].first_name = "Bo"
    /\ pre[req.id].username # db[req.id].username
    /\ db[req.id].first_name = "Bo"

\* ------------------------------------------------------------------ C14
\* position of id in the order of creation (later = greater)
CreatedAt(id) == CHOOSE k \in 1..Len(created) : created[k] = id

\* C14 as stated: get_multi returns at most limit records, none of them
\* soft-deleted, each created after the one that follows it.
C14_NewestFirst ==
    [][multi' # multi =>
        LET result == multi'.result
        IN  /\ Len(result) <= multi'.limit
            /\ \A k \in 1..Len(result) : result[k].deleted_at = None
            /\ \A k \in 1..(Len(result) - 1) :
                    CreatedAt(result[k].id) > CreatedAt(result[k + 1].id)]_vars

\* C14 (amended): get_multi(skip, limit) returns the Active records in
\* descending order of id, without the first skip of them and cut after
\* limit; it returns no soft-deleted record. The order of ids is not the
\* order of creation.
C14_GetMultiByIdDescending ==
    [][multi' # multi =>
        LET result == multi'.result
            active == {r \in Stored(db) : r.deleted_at = None}
            rest == Cardinality(active) - multi'.skip
            above(r) == {q \in active : IdRank(q.id) > IdRank(r.id)}
        IN  /\ Len(result) <= multi'.limit
            /\ Len(result) = IF rest < 0 THEN 0
                              ELSE IF rest < multi'.limit THEN rest
                              ELSE multi'.limit
            /\ \A k \in 1..Len(result) :
                    /\ result[k] \in active
                    /\ Cardinality(above(result[k])) = multi'.skip + k - 1
            /\ \A k \in 1..(Len(result) - 1) :
                    IdRank(result[k].id) > IdRank(result[k + 1].id)]_vars

\* the later record comes second in the page
C14_Witness ==
    /\ multi.called
    /\ multi.skip = 0
    /\ Len(multi.result) = 2
    /\ created = <<"u2", "u1">>
    /\ DOMAIN db = Ids
    /\ multi.result[1] = db["u2"]
    /\ multi.result[2] = db["u1"]

\* ------------------------------------------------------------------ C15
\* the operation each toggle stands for
C15_Operation(toggle) ==
    CASE toggle = "enable_create" -> [method |-> "POST", path |-> "/"]
      [] toggle = "enable_create_multiple" -> [method |-> "POST", path |-> "/batch"]
      [] toggle = "enable_read" -> [method |-> "GET", path |-> "/{id}"]
      [] toggle = "enable_read_all" -> [method |-> "GET", path |-> "/"]
      [] toggle = "enable_update" -> [method |-> "PUT", path |-> "/{id}"]
      [] toggle = "enable_restore" -> [method |-> "PUT", path |-> "/{id}/restore"]
      [] toggle = "enable_delete" -> [method |-> "DELETE", path |-> "/{id}"]

C15_Registered(toggle) ==
    {k \in 1..Len(builder.routes) : builder.routes[k] = C15_Operation(toggle)}

C16_Status(cls) ==
    CASE cls = "BaseAppError" -> {400}
      [] cls = "SoftValidationError" -> {200}
      [] cls = "UnauthorizedError" -> {401}
      [] cls = "PermissionDeniedError" -> {403}
      [] cls = "EntityNotFoundError" -> {404}
      [] cls = "MethodNotAllowedError" -> {405}
      [] cls = "ConflictError" -> {409}
      [] cls = "NotImplementedFunctionError" -> {501}
      [] cls = "ExternalAPIError" -> {502}
      [] cls = "DatabaseIntegrityError" -> {400, 409}

\* C16: an error instance has the status of its kind (a BaseAppError the
\* status it was given, 400 if it was given none; a DatabaseIntegrityError
\* 409 for a unique or primary-key constraint, 400 for a foreign-key or
\* check constraint), and the response built from it has that status and,
\* as message, the error's message: the one it was given, if any.
C16_ErrorKindStatus ==
    thrown.exc # None =>
        LET args == thrown.args[1]
            exc == thrown.exc[1]
        IN  /\ exc.cls = args.cls
            /\ IF args.cls = "BaseAppError"
                    /\ args.status_code \notin {None, Some(0)}
               THEN exc.status_code = args.status_code[1]
               ELSE exc.status_code \in C16_Status(args.cls)
            /\ args.cls = "DatabaseIntegrityError" =>
                    LET c == args.exc[1].constraint
                    IN  /\ c \in {"uq_user_username", "pk_user"} =>
                                exc.status_code = 409
                        /\ c \in {"fk_user_ref", "ck_user_chk"} =>
                                exc.status_code = 400
            /\ args.message \notin {None, Some("")} =>
                    exc.message = args.message[1]
            /\ exc.message # ""
            /\ thrown.response # None =>
                    /\ thrown.response[1].status_code = exc.status_code
                    /\ thrown.response[1].message = exc.message

C16_Witness ==
    /\ thrown.response # None
    /\ thrown.args[1].cls = "MethodNotAllowedError"
    /\ thrown.response[1].status_code = 405

\* ------------------------------------------------------------------ C17
\* C17: a request acquires exactly one session, which is open while the
\* request is being handled and closed once the request has ended, whether
\* it ended with a result, with a domain error (400, 404) or with a storage
\* error (500); a slot no request has used holds no session.
C17_SessionReleased ==
    \A r \in Slots :
        /\ sess[r].pc = "idle" => sess[r].session = "none" /\ sess[r].opened = 0
        /\ sess[r].pc \in {"select", "commit", "reread"} =>
                sess[r].session = "open" /\ sess[r].opened = 1
        /\ sess[r].pc = "done" =>
                sess[r].session = "closed" /\ sess[r].opened = 1

\* one request has ended on a storage error, the other is still running
C17_Witness ==
    /\ sess["r1"].pc = "done"
    /\ sess["r1"].result.status_code = 500
    /\ sess["r1"].session = "closed"
    /\ sess["r2"].pc = "reread"
    /\ sess["r2"].session = "open"

\* ------------------------------------------------------------------ C18
\* request r gets its result in this step
Returns(r) ==
    /\ sess[r].pc \in {"commit", "reread"}
    /\ sess'[r].pc = "done"
    /\ sess'[r].result.error = ""

\* C18: when update, restore or soft_remove returns, the record it returns
\* is the record the store holds at that moment, also when another request
\* has committed a change to that record since this request looked it up.
C18_ReturnsStoredRecord ==
    [][\A r \in Slots :
        (Returns(r) /\ ~(sess[r].op = "delete" /\ sess[r].flag)) =>
            /\ sess[r].id \in DOMAIN db'
            /\ sess'[r].result.body = {db'[sess[r].id]}]_vars

\* ------------------------------------------------------------------ C19
\* request r starts in this step / commits in this step
Begins(r) == sess[r].pc \in {"idle", "done"} /\ sess'[r] # sess[r]
Commits(r) == sess[r].pc = "commit" /\ sess'[r] # sess[r]

\* C19 as stated: no commit of an update changes a record that is
\* soft-deleted in the store at the moment of that commit.
C19_UpdateOnlyActive ==
    \A r \in Slots : sess[r].op = "update" => sess[r].hit # "SoftDeleted"

\* C19 (amended): an update goes on to its commit only if its lookup found
\* the record Active, and otherwise ends with NotFound (404) and changes
\* nothing; its commit leaves deleted_at and every other record as they
\* are. The record is not checked again at the commit.
C19_UpdateOfLookedUpActive ==
    [][\A r \in Slots :
        /\ (Begins(r) /\ sess'[r].op = "update") =>
                /\ db' = db
                /\ IF IsActive(db, sess'[r].id)
                   THEN /\ sess'[r].pc = "commit"
                        /\ sess'[r].obj = Some(db[sess'[r].id])
                   ELSE /\ sess'[r].pc = "done"
                        /\ FailsWith(sess'[r].result, "EntityNotFoundError", 404)
        /\ (Commits(r) /\ sess[r].op = "update") =>
                /\ sess[r].obj[1].deleted_at = None
                /\ DOMAIN db' = DOMAIN db
                /\ \A i \in DOMAIN db :
                        /\ db'[i].deleted_at = db[i].deleted_at
                        /\ i # sess[r].id => db'[i] = db[i]]_vars

\* an update has changed a record that a concurrent soft delete had marked
C19_Witness ==
    /\ sess["r1"].op = "update"
    /\ sess["r1"].hit = "SoftDeleted"
    /\ sess["r1"].pc = "reread"
    /\ IsSoftDeleted(db, "u1")
    /\ db["u1"].first_name = "Bo"

\* ------------------------------------------------------------------ C20
\* C20 as stated: of two soft deletes of one Active id one fails with
\* InvalidState; no commit of a soft delete changes a record whose
\* deleted_at is set.
C20_SoftDeleteNotOverwritten ==
    \A r \in Slots :
        (sess[r].op = "delete" /\ ~sess[r].flag) => sess[r].hit # "SoftDeleted"

\* C20 (amended): a soft delete whose lookup finds the record soft-deleted
\* fails with InvalidState (400) and changes nothing, and a soft delete
\* goes on to its commit only if its lookup found the record Active. The
\* record is not checked again at the commit: of two soft deletes that
\* both looked the record up while it was Active, both succeed and the
\* later commit overwrites deleted_at.
C20_SoftDeleteChecksAtLookup ==
    [][\A r \in Slots :
        /\ (Begins(r) /\ sess'[r].op = "delete" /\ ~sess'[r].flag) =>
                /\ db' = db
                /\ IsSoftDeleted(db, sess'[r].id) =>
                        /\ sess'[r].pc = "done"
                        /\ FailsWith(sess'[r].result, "BaseAppError", 400)
                /\ IsActive(db, sess'[r].id) =>
                        /\ sess'[r].pc = "commit"
                        /\ sess'[r].obj = Some(db[sess'[r].id])
        /\ (Commits(r) /\ sess[r].op = "delete" /\ ~sess[r].flag) =>
                sess[r].obj[1].deleted_at = None]_vars

\* both soft deletes of u1 have succeeded, the second over the first
C20_Witness ==
    /\ \A r \in Slots :
            /\ sess[r].op = "delete" /\ ~sess[r].flag /\ sess[r].id = "u1"
            /\ sess[r].pc = "done"
            /\ sess[r].result.status_code = HTTP_200_OK
    /\ sess["r1"].hit = "Active"
    /\ sess["r2"].hit = "SoftDeleted"
    /\ sess["r1"].result.body # sess["r2"].result.body

\* ------------------------------------------------------------------ C21
\* request r runs the select of remove in this step
Selects(r) == sess[r].pc = "select" /\ sess'[r] # sess[r]

\* hard deletes of id that have removed its record
Removers(id) ==
    {q \in Slots : sess'[q].op = "delete" /\ sess'[q].flag /\ sess'[q].id = id
                   /\ sess'[q].hit # ""}

\* C21: a remove whose select finds no record, as after a concurrent hard
\* delete that committed since the service's lookup, fails with
\* NoResultFound and leaves the table as it is. A remove whose select found
\* the record goes on to its DELETE, after which the id has no record and
\* every other record is as before. Of the hard deletes of one id at most
\* one has removed the record, and exactly one when both have returned it
\* (the DELETE of the other matched no row).
C21_RemoveChecksAtSelect ==
    [][\A r \in Slots :
        /\ Selects(r) =>
                /\ db' = db
                /\ IF sess[r].id \in DOMAIN db
                   THEN sess'[r].pc = "commit"
                   ELSE /\ sess'[r].pc = "done"
                        /\ sess'[r].result.error = "NoResultFound"
                        /\ sess'[r].result.body = {}
        /\ (Commits(r) /\ sess[r].op = "delete" /\ sess[r].flag) =>
                /\ sess[r].id \notin DOMAIN db'
                /\ DOMAIN db' = DOMAIN db \ {sess[r].id}
                /\ \A i \in DOMAIN db' : db'[i] = db[i]
                /\ sess'[r].hit # "" <=> sess[r].id \in DOMAIN db
        /\ Cardinality(Removers(sess'[r].id)) <= 1
        /\ (\A q \in Slots :
                /\ sess'[q].op = "delete" /\ sess'[q].flag
                /\ sess'[q].id = sess'[r].id
                /\ sess'[q].pc = "done" /\ sess'[q].result.error = "")
            => Cardinality(Removers(sess'[r].id)) = 1]_vars

\* two hard deletes of u1 side by side: one removed the record; the
\* other, whose select came after that, failed
C21_Witness ==
    /\ \A r \in Slots :
            /\ sess[r].op = "delete" /\ sess[r].flag /\ sess[r].id = "u1"
            /\ sess[r].pc = "done"
    /\ sess["r1"].hit # ""
    /\ sess["r1"].result.status_code = HTTP_200_OK
    /\ sess["r2"].result.error = "NoResultFound"
    /\ "u1" \notin DOMAIN db

\* ------------------------------------------------------------------ C22
\* C22: get(id, include_removed) fails with EntityNotFound (404) exactly
\* when the repository finds no record: always for an id without record,
\* for a soft-deleted record exactly when include_removed is false, never
\* for an Active record; when it does not fail it returns the stored
\* record.
C22_GetNotFoundIffAbsent ==
    req.op = "get_by_id" =>
        LET life == LifeState(db, req.id)
            absent == \/ life = "Gone"
                      \/ life = "SoftDeleted" /\ ~req.flag
        IN  /\ absent <=> CRUDBase_get(db, req.id, req.flag) = None
            /\ absent <=> FailsWith(resp, "EntityNotFoundError", HTTP_404_NOT_FOUND)
            /\ ~absent =>
                    /\ Succeeded
                    /\ resp.status_code = HTTP_200_OK
                    /\ resp.body = {db[req.id]}

C22_Witness ==
    /\ req.op = "get_by_id"
    /\ req.flag
    /\ IsSoftDeleted(db, req.id)
    /\ resp.body = {db[req.id]}
    /\ \E i \in Ids : i \notin DOMAIN db

\* ------------------------------------------------------------------ C23
\* C23: update, restore, soft delete and hard delete on an id that has no
\* record fail with EntityNotFound (404), not with BaseAppError or a 500,
\* and leave the table as it was.
C23_MissingIdNotFound ==
    (req.op \in {"update", "restore", "delete"} /\ req.id \notin DOMAIN pre) =>
        /\ FailsWith(resp, "EntityNotFoundError", HTTP_404_NOT_FOUND)
        /\ db = pre

C23_Witness ==
    /\ req.op = "delete"
    /\ req.flag
    /\ req.id \notin DOMAIN pre
    /\ resp.status_code = HTTP_404_NOT_FOUND
    /\ Cardinality(DOMAIN db) = 1

\* ------------------------------------------------------------------ C24
\* C24: the status of a DatabaseIntegrityError follows the prefix of the
\* constraint name when it is one of uq_, pk_ (409) or fk_, ck_ (400),
\* whatever the text says; without a constraint name, or with another
\* prefix, it follows the text: 409 when the text has "Key (...)=(...)
\* already exists", 400 otherwise.
C24_PrefixBeforeText ==
    (thrown.exc # None /\ thrown.args[1].cls = "DatabaseIntegrityError") =>
        LET exc == thrown.args[1].exc[1]
            code == thrown.exc[1].status_code
            message == thrown.exc[1].message
        IN  /\ exc.constraint \in {"uq_user_username", "pk_user"} => code = 409
            /\ exc.constraint \in {"fk_user_ref", "ck_user_chk"} => code = 400
            /\ exc.constraint \in {"", "ix_user"} =>
                    code = IF exc.key_exists THEN 409 ELSE 400
            /\ message = "Duplicate value for field(s)" <=>
                    (exc.constraint \in {"", "ix_user"} /\ exc.key_exists)

\* a foreign-key violation whose text would match the fallback
C24_Witness ==
    /\ thrown.response # None
    /\ thrown.args[1].cls = "DatabaseIntegrityError"
    /\ thrown.args[1].exc[1].constraint = "fk_user_ref"
    /\ thrown.args[1].exc[1].key_exists
    /\ thrown.response[1].status_code = 400

\* ------------------------------------------------------------------ C25
\* C25: get, get_all and get_multi leave the table as it is, and so does
\* every update, restore and delete that fails with EntityNotFound (404)
\* or InvalidState (BaseAppError, 400).
C25_ReadsAndFailuresKeepStore ==
    [][/\ multi' # multi => db' = db
       /\ (multi' = multi /\ req'.op \in {"get_by_id", "get_all"}) => db' = db
       /\ (multi' = multi
            /\ resp'.error \in {"EntityNotFoundError", "BaseAppError"}) =>
                db' = db]_vars

\* a page was read, then a second soft delete was refused
C25_Witness ==
    /\ multi.called
    /\ Len(multi.result) = 1
    /\ req.op = "delete"
    /\ FailsWith(resp, "BaseAppError", HTTP_400_BAD_REQUEST)
    /\ IsSoftDeleted(db, req.id)
    /\ db = pre

\* ------------------------------------------------------------------ C26
\* soft-deleted records other than id that hold username
C26_HeldBySoftDeleted(store, id, username) ==
    {j \in DOMAIN store \ {id} :
        store[j].username = username /\ store[j].deleted_at # None}

\* C26: no two stored records, soft-deleted ones included, have the same
\* username; a create or an update that would give a record the username
\* of a soft-deleted record fails (with 409 when nothing else is wrong
\* with the request) and stores nothing.
C26_UsernameUniqueOverAll ==
    /\ \A i, j \in DOMAIN db : i # j => db[i].username # db[j].username
    /\ (req.op = "create" /\ req.items[1].shape_ok
            /\ C26_HeldBySoftDeleted(pre, req.id, req.items[1].username) # {}) =>
            /\ resp.status_code = HTTP_409_CONFLICT
            /\ db = pre
    /\ (req.op = "update" /\ req.patch.username \notin {Unset, None}) =>
            (C26_HeldBySoftDeleted(pre, req.id, req.patch.username[1]) # {} =>
                /\ ~Succeeded
                /\ db = pre
                /\ IsActive(pre, req.id) => resp.status_code = HTTP_409_CONFLICT)

\* an update of an Active record to the username of a soft-deleted one
C26_Witness ==
    /\ req.op = "update"
    /\ req.patch.username \notin {Unset, None}
    /\ IsActive(pre, req.id)
    /\ C26_HeldBySoftDeleted(pre, req.id, req.patch.username[1]) # {}
    /\ resp.status_code = HTTP_409_CONFLICT

\* ------------------------------------------------------------------ C27
\* the request came with a token the provider answered with an identity
Verified == auth.token # None /\ auth.token[1].answer = "userinfo"

\* C27: when a route that depends on get_current_user is called with a
\* verified identity whose record is soft-deleted or gone, the request
\* fails with EntityNotFound (404), no current user is resolved and the
\* handler does not run
C27_RemovedUserCannotAct ==
    (/\ req.op \in {"get_me", "get_users"}
     /\ Verified
     /\ ~IsActive(pre, req.id))
    => /\ FailsWith(resp, "EntityNotFoundError", HTTP_404_NOT_FOUND)
       /\ auth.user = None
       /\ ~auth.ran

\* a soft-deleted user presented a valid token and was turned away
C27_Witness ==
    /\ req.op = "get_me"
    /\ Verified
    /\ IsSoftDeleted(pre, req.id)
    /\ FailsWith(resp, "EntityNotFoundError", HTTP_404_NOT_FOUND)
    /\ ~auth.ran

\* ------------------------------------------------------------------ C28
\* C28: a login with an identity whose record is Active answers 200 with
\* that record and leaves the table as it was; after every successful
\* login exactly one record has the identity's sub as its id, and it is
\* the one returned
C28_CreateUserIdempotent ==
    (req.op = "login" /\ Verified)
    => /\ IsActive(pre, req.id)
            => /\ Succeeded
               /\ resp.status_code = HTTP_200_OK
               /\ resp.body = {pre[req.id]}
               /\ db = pre
       /\ Succeeded
            => /\ Cardinality({r \in Stored(db) : r.id = req.id}) = 1
               /\ Cardinality({i \in DOMAIN db : db[i].id = req.id}) = 1
               /\ resp.body = {db[req.id]}

\* a second login for one identity, with another name in the token,
\* returned the record of the first
C28_Witness ==
    /\ req.op = "login"
    /\ Verified
    /\ IsActive(pre, req.id)
    /\ Succeeded
    /\ pre[req.id].username # auth.token[1].info.preferred_username
    /\ db = pre

\* ------------------------------------------------------------------ C29
\* the resolved user carries the flag section_head, and it is set
Privileged(user) == "section_head" \in DOMAIN user /\ user.section_head

\* C29: GET /users/ called by an authenticated user answers 200 with the
\* users that are not soft-deleted when the user has the section_head
\* flag, and fails with PermissionDenied (403) with no users otherwise
C29_ListOnlyForSectionHead ==
    (req.op = "get_users" /\ auth.user # None)
    => IF Privileged(auth.user[1])
       THEN /\ Succeeded
            /\ resp.status_code = HTTP_200_OK
            /\ resp.body = {r \in Stored(pre) : r.deleted_at = None}
       ELSE FailsWith(resp, "PermissionDeniedError", HTTP_403_FORBIDDEN)

====
